---- MODULE Spec2Model ----
(***************************************************************************)
(* State-machine model of src/server.js: the ONDC onboarding server.       *)
(*                                                                         *)
(* The process starts by validating its configuration and deriving the     *)
(* shared key (lines 47-117), registers its routes and listens (666-669).  *)
(* Each request is handled by one Express handler; an async handler runs   *)
(* atomically up to its next await, so every handler is cut into one       *)
(* action per await-delimited segment.                                     *)
(*                                                                         *)
(* Text is modelled as sequences of one-character strings where the code   *)
(* inspects its characters (regular expressions, base64), and as atoms     *)
(* elsewhere.  "undefined" stands for JavaScript's undefined and "" for    *)
(* the empty string; both are falsy.                                       *)
(***************************************************************************)
EXTENDS Integers, Sequences, FiniteSets, TLC

VARIABLES
    env,        \* process.env: variable name -> text (<<>> when unset)
    server,     \* position of the start-up script / state of the process
    exitCode,   \* argument of process.exit, 0 while the process runs
    sharedKey,  \* the module-level sharedKey (line 94), NoKey until derived
    sodium,     \* state of the _sodium.ready promise
    readyCount, \* how many times _sodium.ready has settled
    req         \* the requests in flight: slot -> request record

vars == <<env, server, exitCode, sharedKey, sodium, readyCount, req>>

----------------------------------------------------------------------------
(* Bounds of the model.                                                    *)

\* concurrent requests of the outbound (signed call) flows
MaxOutReq == 2
\* concurrent requests of the site-verification flow
MaxSiteReq == 3
\* cipher block length in bytes, scaled down from AES's 16
BlockSize == 2
\* longest challenge text, in characters
MaxChallengeLen == 4

----------------------------------------------------------------------------
(* Configuration: lines 10-30 and 47-72.                                   *)

requiredEnvVars ==
    { "ENCRYPTION_PRIVATE_KEY", "ONDC_PUBLIC_KEY", "SIGNING_PRIVATE_KEY",
      "REQUEST_ID", "UNIQUE_KEY_ID", "ONDC_SUBSCRIBE_URL", "ONDC_LOOKUP_URL",
      "SUBSCRIBER_ID", "SUBSCRIBER_URL", "CALLBACK_URL", "EMAIL_ID",
      "MOBILE_NO", "COUNTRY", "PAN_NO", "PAN_NAME",
      "PAN_DATE_OF_INCORPORATION", "NAME_OF_AUTHORISED_SIGNATORY",
      "ADDRESS_OF_AUTHORISED_SIGNATORY", "LEGAL_ENTITY_NAME",
      "BUSINESS_ADDRESS", "GST_NO", "DOMAIN", "CITY_CODE" }

\* Variables the handlers read that the start-up script never checks
\* (lines 380, 458, 551).
optionalEnvVars == { "REQUEST_PUBLIC_KEY", "ONDC_GATEWAY_PUBLIC_KEY" }

EnvVars == requiredEnvVars \cup optionalEnvVars

Unset == <<>>

\* Character classes: "/" slash, "a" an alphanumeric that is neither an
\* upper-case letter nor a digit class below, "-" any other character,
\* "0" the digit zero, "7" a digit 1-9, "A" an upper-case letter A-Y,
\* "Z" the letter Z, "S" a URL scheme and authority ("https://host").
Digits == {"0", "7"}
Uppers == {"A", "Z"}
AlphaNum == {"a", "0", "7", "A", "Z"}

\* CALLBACK_URL.match(/^\/[a-zA-Z0-9\/]*$/)                     (line 82)
CallbackUrlMatches(s) ==
    /\ Len(s) >= 1
    /\ s[1] = "/"
    /\ \A i \in 2..Len(s) : s[i] \in AlphaNum \cup {"/"}

\* GST_NO.match(/^[0-9]{2}[A-Z]{5}[0-9]{4}[A-Z]{1}[1-9A-Z]{1}Z[0-9A-Z]{1}$/)
\*                                                              (line 88)
GstNoMatches(s) ==
    /\ Len(s) = 15
    /\ \A i \in 1..2 : s[i] \in Digits
    /\ \A i \in 3..7 : s[i] \in Uppers
    /\ \A i \in 8..11 : s[i] \in Digits
    /\ s[12] \in Uppers
    /\ s[13] \in {"7"} \cup Uppers
    /\ s[14] = "Z"
    /\ s[15] \in Digits \cup Uppers

\* new URL(SUBSCRIBER_URL) throws a TypeError unless the text is an
\* absolute URL                                            (lines 428, 600)
UrlParses(s) == Len(s) >= 1 /\ s[1] = "S"

\* Key texts are <<encoding, curve>>; anything else does not decode.
Curves == {"x25519", "p256"}
NoKey == <<"nokey">>

\* crypto.createPrivateKey({format: 'der', type: 'pkcs8'})     (lines 96-100)
PrivateKeyDecodes(s) == Len(s) = 2 /\ s[1] = "pkcs8" /\ s[2] \in Curves

\* crypto.createPublicKey({format: 'der', type: 'spki'})      (lines 102-106)
PublicKeyDecodes(s) == Len(s) = 2 /\ s[1] = "spki" /\ s[2] \in Curves

\* crypto.diffieHellman throws when the two keys are of different types
\*                                                            (lines 109-112)
DiffieHellmanWorks(priv, pub) ==
    /\ PrivateKeyDecodes(priv)
    /\ PublicKeyDecodes(pub)
    /\ priv[2] = pub[2]

DiffieHellman(priv, pub) == <<"secret", priv[2]>>

GoodGstNo ==
    <<"7","7","A","A","A","A","A","0","0","0","0","A","7","Z","7">>

\* A configuration that passes every start-up check.
OkEnv ==
    [v \in EnvVars |->
        CASE v = "ENCRYPTION_PRIVATE_KEY" -> <<"pkcs8", "x25519">>
          [] v = "ONDC_PUBLIC_KEY"        -> <<"spki", "x25519">>
          [] v = "SIGNING_PRIVATE_KEY"    -> <<"seed">>
          [] v = "CALLBACK_URL"           -> <<"/", "a", "/", "a">>
          [] v = "SUBSCRIBER_URL"         -> <<"S", "/", "a">>
          [] v = "GST_NO"                 -> GoodGstNo
          [] v = "REQUEST_PUBLIC_KEY"     -> <<"pub", "self">>
          [] v = "ONDC_GATEWAY_PUBLIC_KEY" -> <<"pub", "gateway">>
          [] OTHER                        -> <<"x">>]

\* The texts a variable is tried with.
EnvChoices(v) ==
    {Unset, OkEnv[v]} \cup
    CASE v = "ENCRYPTION_PRIVATE_KEY" -> {<<"junk">>, <<"pkcs8", "p256">>}
      [] v = "ONDC_PUBLIC_KEY"        -> {<<"junk">>, <<"spki", "p256">>}
      [] v = "SIGNING_PRIVATE_KEY"    -> {<<"junk">>}
      [] v = "CALLBACK_URL"           ->
            {<<"/">>, <<"a">>, <<"/", "-">>, <<"a", "/">>, <<"/", "7", "Z">>}
      [] v = "SUBSCRIBER_URL"         -> {<<"/", "a">>}
      [] v = "GST_NO"                 ->
            { SubSeq(GoodGstNo, 1, 14),
              [GoodGstNo EXCEPT ![3] = "a"],
              [GoodGstNo EXCEPT ![13] = "0"],
              [GoodGstNo EXCEPT ![14] = "A"],
              [GoodGstNo EXCEPT ![15] = "Z"] }
      [] OTHER                        -> {}

----------------------------------------------------------------------------
(* Start-up script.                                                        *)

\* process.exit(1)                                  (lines 76, 84, 90, 116)
Exit(code) ==
    /\ server' = "exited"
    /\ exitCode' = code

\* for (const envVar of requiredEnvVars) if (!process.env[envVar]) exit
CheckEnvVars ==
    /\ server = "boot"
    /\ IF \E v \in requiredEnvVars : env[v] = Unset
         THEN Exit(1)
         ELSE server' = "envChecked" /\ UNCHANGED exitCode
    /\ UNCHANGED <<env, sharedKey, sodium, readyCount, req>>

CheckCallbackUrl ==
    /\ server = "envChecked"
    /\ IF ~CallbackUrlMatches(env["CALLBACK_URL"])
         THEN Exit(1)
         ELSE server' = "callbackChecked" /\ UNCHANGED exitCode
    /\ UNCHANGED <<env, sharedKey, sodium, readyCount, req>>

CheckGstNo ==
    /\ server = "callbackChecked"
    /\ IF ~GstNoMatches(env["GST_NO"])
         THEN Exit(1)
         ELSE server' = "gstChecked" /\ UNCHANGED exitCode
    /\ UNCHANGED <<env, sharedKey, sodium, readyCount, req>>

\* Mutant of InitKeys: the catch block logs the error and goes on.
InitKeysWithoutExit ==
    /\ server = "gstChecked"
    /\ sharedKey' =
          IF DiffieHellmanWorks(env["ENCRYPTION_PRIVATE_KEY"], env["ONDC_PUBLIC_KEY"])
            THEN DiffieHellman(env["ENCRYPTION_PRIVATE_KEY"], env["ONDC_PUBLIC_KEY"])
            ELSE sharedKey
    /\ server' = "keysReady"
    /\ UNCHANGED <<env, exitCode, sodium, readyCount, req>>

\* try { createPrivateKey; createPublicKey; diffieHellman }
\* catch { process.exit(1) }
InitKeys ==
    /\ server = "gstChecked"
    /\ IF DiffieHellmanWorks(env["ENCRYPTION_PRIVATE_KEY"], env["ONDC_PUBLIC_KEY"])
         THEN /\ sharedKey' = DiffieHellman(env["ENCRYPTION_PRIVATE_KEY"],
                                            env["ONDC_PUBLIC_KEY"])
              /\ server' = "keysReady"
              /\ UNCHANGED exitCode
         ELSE Exit(1) /\ UNCHANGED sharedKey
    /\ UNCHANGED <<env, sodium, readyCount, req>>

\* Route registration; the on_search and on_select paths evaluate
\* new URL(SUBSCRIBER_URL).pathname, whose TypeError is uncaught and ends
\* the process with exit code 1.
RegisterRoutes ==
    /\ server = "keysReady"
    /\ IF UrlParses(env["SUBSCRIBER_URL"])
         THEN server' = "routesReady" /\ UNCHANGED exitCode
         ELSE Exit(1)
    /\ UNCHANGED <<env, sharedKey, sodium, readyCount, req>>

\* app.listen(port, ...)
Listen ==
    /\ server = "routesReady"
    /\ server' = "listening"
    /\ UNCHANGED <<env, exitCode, sharedKey, sodium, readyCount, req>>

----------------------------------------------------------------------------
(* JavaScript values of a request.                                         *)

Undefined == "undefined"

\* !v is false exactly for these texts
Truthy(v) == v \notin {Undefined, ""}

\* The challenge field is inspected character by character, so it is kept
\* as [t: its JavaScript type, s: its characters].  A character is a byte
\* value it decodes to, or BadChar for one outside the base64 alphabet.
BadChar == 0 - 1
\* A byte that is no valid UTF-8 on its own (0x80 and above).
HighByte == BlockSize + 1
Bytes == 0..HighByte
\* What a HighByte decodes to: U+FFFD.
ReplacementChar == 0 - 2

NoChallenge == [t |-> "undefined", s |-> <<>>]

\* !challenge is false for undefined and for the empty string
ChallengeTruthy(c) ==
    \/ c.t = "number"
    \/ c.t = "string" /\ c.s # <<>>

\* req.body after bodyParser.json(): an object with the fields the handlers
\* destructure, Undefined where the JSON text had none.  The nested context
\* of an outbound payload is flattened into the same record.
EmptyJson ==
    [ challenge      |-> NoChallenge,
      subscriber_id  |-> Undefined,
      country        |-> Undefined,
      city           |-> Undefined,
      domain         |-> Undefined,
      type           |-> Undefined,
      transaction_id |-> Undefined,
      message        |-> Undefined,
      context        |-> Undefined,
      action         |-> Undefined,
      message_id     |-> 0 ]

\* A JSON text: the value it denotes and how it is spelled.  "compact" is
\* the spelling JSON.stringify produces; "spaced" has insignificant white
\* space, "escaped" spells a character or a number differently.
Spellings == {"compact", "spaced", "escaped"}

\* JSON.stringify(value)
JSONstringify(value) == [v |-> value, spelling |-> "compact"]

\* bodyParser.json(): JSON.parse of the raw request text      (line 134)
JSONparse(text) == text.v

----------------------------------------------------------------------------
(* HTTP responses.                                                         *)

Response(status, shape, text, data, details, answer) ==
    [ status  |-> status,    \* res.status(...)
      shape   |-> shape,     \* which fields the body has
      text    |-> text,      \* the fixed error / message text
      data    |-> data,      \* data field, or the whole body when verbatim
      details |-> details,   \* details field
      answer  |-> answer ]   \* answer field of on_subscribe

\* res.status(s).json({ error: text })
ErrorResponse(status, text) ==
    Response(status, "error", text, Undefined, Undefined, <<>>)

\* res.status(s).json({ error: text, details: details })
DetailedErrorResponse(status, text, details) ==
    Response(status, "error", text, Undefined, details, <<>>)

\* res.status(200).json({ message: text, data: data })
MessageResponse(text, data) ==
    Response(200, "message", text, data, Undefined, <<>>)

----------------------------------------------------------------------------
(* Requests in flight.                                                     *)

\* An Authorization header: "absent" (undefined), "empty" (""), "garbage"
\* (no parsable signature header) or "sig": a signature by signer's key over
\* the digest of a text, inside or outside its validity window.  by is the
\* request that built it (0 for a peer's header); no code reads it.
NoHeader ==
    [ kind    |-> "absent",
      signer  |-> "none",
      digest  |-> JSONstringify(EmptyJson),
      expired |-> FALSE,
      by      |-> 0 ]

\* !authHeader
HeaderTruthy(h) == h.kind \notin {"absent", "empty"}

\* What a handler's catch block caught: the kind of call that threw and
\* the error's message.
NoError == [from |-> "none", message |-> Undefined]

\* What axios.post came back with: an HTTP response, or a transport
\* failure without one.
NoReply == [kind |-> "none", status |-> 0, data |-> Undefined]

IdleReq ==
    [ ep         |-> "none",     \* the route that matched
      pc         |-> "idle",     \* where the handler is suspended
      raw        |-> JSONstringify(EmptyJson),  \* request text as received
      body       |-> EmptyJson,  \* req.body
      auth       |-> NoHeader,   \* req.headers.authorization
      payload    |-> EmptyJson,  \* the body / payload object being sent
      authHeader |-> NoHeader,   \* the handler's local authHeader
      isValid    |-> FALSE,      \* the handler's local isValid
      calls      |-> <<>>,       \* calls the handler made, in order
      built      |-> <<>>,       \* createAuthorizationHeader: [body, header]
      verified   |-> <<>>,       \* isHeaderValid: [header, body, result]
      sent       |-> <<>>,       \* axios.post: [url, body, header]
      reply      |-> NoReply,    \* what axios.post came back with
      caught     |-> NoError,    \* the error the catch block caught
      sodiumAtStart |-> "none",  \* _sodium.ready when signMessage was called
      sodiumAtSign  |-> "none",  \* and when crypto_sign_detached ran
      out        |-> <<>> ]      \* responses sent

Slots == DOMAIN req

\* res.status(...).json(...) / res.send(...): the handler's last statement
\* on every path that reaches it.
Respond(r, response) ==
    [req[r] EXCEPT !.pc = "done", !.out = Append(@, response)]

----------------------------------------------------------------------------
(* Challenge decryption: decryptAES256ECB, lines 672-684.                  *)

\* Node decodes base64 leniently: characters outside the alphabet are
\* skipped, nothing is thrown.  (decipher.update(encrypted, 'base64', ...))
Base64Decode(s) == SelectSeq(s, LAMBDA c : c # BadChar)

\* aes-256 needs a 32-byte key; createDecipheriv throws otherwise.
KeyBytes(key) == IF key = NoKey THEN 0 ELSE 32

\* The key-dependent part of the block permutation.
KeyShift(key) == IF key = <<"secret", "x25519">> THEN 1 ELSE 2

\* One ECB block: a key-dependent bijection on blocks (bytes reversed,
\* each shifted by the key).
DecryptBlock(key, block) ==
    [i \in 1..BlockSize |->
        (block[BlockSize + 1 - i] + KeyShift(key)) % (HighByte + 1)]

\* The registry's side of the same cipher, used to build challenges.
EncryptBlock(key, block) ==
    [i \in 1..BlockSize |->
        (block[BlockSize + 1 - i] + (HighByte + 1) - KeyShift(key)) % (HighByte + 1)]

\* ECB: every block on its own.
DecryptBlocks(key, bytes) ==
    [i \in 1..Len(bytes) |->
        LET b == (i - 1) \div BlockSize
            block == SubSeq(bytes, b * BlockSize + 1, (b + 1) * BlockSize)
        IN  DecryptBlock(key, block)[i - b * BlockSize]]

\* PKCS#7: the last byte n is in 1..BlockSize and the last n bytes are n.
PaddingValid(plain) ==
    /\ Len(plain) >= 1
    /\ LET n == plain[Len(plain)]
       IN  /\ n \in 1..BlockSize
           /\ \A i \in (Len(plain) - n + 1)..Len(plain) : plain[i] = n

Unpad(plain) == SubSeq(plain, 1, Len(plain) - plain[Len(plain)])

\* Buffer -> 'utf8' text: a byte that is no UTF-8 becomes U+FFFD.
Utf8Decode(bytes) ==
    [i \in 1..Len(bytes) |->
        IF bytes[i] = HighByte THEN ReplacementChar ELSE bytes[i]]

\* What makes createDecipheriv, update or final throw:
\* a key of the wrong length, a challenge that is no string, a ciphertext
\* that is empty or no whole number of blocks ("wrong final block
\* length"), a bad padding ("bad decrypt").
CipherThrows(key, encrypted) ==
    \/ KeyBytes(key) # 32
    \/ encrypted.t # "string"
    \/ LET cipher == Base64Decode(encrypted.s)
       IN  \/ Len(cipher) = 0
           \/ Len(cipher) % BlockSize # 0
           \/ ~PaddingValid(DecryptBlocks(key, cipher))

\* decrypted = decipher.update(...) + decipher.final('utf8')
CipherText(key, encrypted) ==
    Utf8Decode(Unpad(DecryptBlocks(key, Base64Decode(encrypted.s))))

\* Mutant of decryptAES256ECB: the catch block returns what was decrypted
\* so far (nothing) instead of throwing.
decryptAES256ECBSwallowing(key, encrypted) ==
    IF CipherThrows(key, encrypted)
      THEN [threw |-> FALSE, message |-> Undefined, value |-> <<>>]
      ELSE [threw |-> FALSE, message |-> Undefined, value |-> CipherText(key, encrypted)]

\* decryptAES256ECB(key, encrypted): returns the text, or throws
\* Error('Failed to decrypt challenge') whatever the cause was.
decryptAES256ECB(key, encrypted) ==
    IF CipherThrows(key, encrypted)
      THEN [threw |-> TRUE, message |-> "Failed to decrypt challenge", value |-> <<>>]
      ELSE [threw |-> FALSE, message |-> Undefined, value |-> CipherText(key, encrypted)]

----------------------------------------------------------------------------
(* POST <CALLBACK_URL>/on_subscribe, lines 222-242.  Synchronous.          *)

\* The handler's outcome: the calls it makes and the response it sends.
OnSubscribeOutcome(key, body) ==
    IF ~ChallengeTruthy(body.challenge)
      THEN [calls |-> <<>>, caught |-> NoError,
            response |-> ErrorResponse(400, "Challenge is required")]
      ELSE LET answer == decryptAES256ECB(key, body.challenge)
           IN  IF answer.threw
                 THEN [calls |-> <<"decryptAES256ECB">>,
                       caught |-> [from |-> "decryptAES256ECB", message |-> answer.message],
                       response |-> ErrorResponse(500, "Internal server error")]
                 ELSE [calls |-> <<"decryptAES256ECB">>, caught |-> NoError,
                       response |-> Response(200, "answer", Undefined, Undefined,
                                             Undefined, answer.value)]

\* Texts of at most n characters.
Texts(n) == UNION {[1..k -> Bytes \cup {BadChar}] : k \in 0..n}

Challenges ==
    {NoChallenge, [t |-> "number", s |-> <<>>]}
        \cup {[t |-> "string", s |-> s] : s \in Texts(MaxChallengeLen)}

OnSubscribeFrom(r, challenges) ==
    /\ server = "listening"
    /\ req[r].pc = "idle"
    /\ \E challenge \in challenges, subscriber_id \in {Undefined, "registry"} :
         LET body == [EmptyJson EXCEPT !.challenge = challenge,
                                       !.subscriber_id = subscriber_id]
             outcome == OnSubscribeOutcome(sharedKey, body)
         IN  req' = [req EXCEPT ![r] =
                        [Respond(r, outcome.response) EXCEPT
                            !.ep = "on_subscribe",
                            !.raw = JSONstringify(body),
                            !.body = body,
                            !.calls = outcome.calls,
                            !.caught = outcome.caught]]
    /\ UNCHANGED <<env, server, exitCode, sharedKey, sodium, readyCount>>

\* The exchange is over once the response is out; the server goes on
\* accepting connections (app.listen, lines 667-669).
\* The handler, for every challenge a registry may send.
OnSubscribe(r) == OnSubscribeFrom(r, Challenges)

Close(r) ==
    /\ req[r].pc = "done"
    /\ req' = [req EXCEPT ![r] = IdleReq]
    /\ UNCHANGED <<env, server, exitCode, sharedKey, sodium, readyCount>>

----------------------------------------------------------------------------
(* The process from its start: configuration, start-up, then serving.      *)

InitStartup ==
    /\ \E v1 \in EnvVars, v2 \in EnvVars :
         \E x1 \in EnvChoices(v1), x2 \in EnvChoices(v2) :
            env = [[OkEnv EXCEPT ![v1] = x1] EXCEPT ![v2] = x2]
    /\ server = "boot"
    /\ exitCode = 0
    /\ sharedKey = NoKey
    /\ sodium = "pending"
    /\ readyCount = 0
    /\ req = [r \in {1} |-> IdleReq]

NextStartup ==
    \/ CheckEnvVars
    \/ CheckCallbackUrl
    \/ CheckGstNo
    \/ InitKeys
    \/ RegisterRoutes
    \/ Listen
    \/ \E r \in Slots : OnSubscribe(r)
    \/ \E r \in Slots : Close(r)

SpecStartup == InitStartup /\ [][NextStartup]_vars

\* What the start-up script requires of a configuration.
C6_ConfigurationComplete ==
    /\ \A v \in requiredEnvVars : env[v] # Unset
    /\ CallbackUrlMatches(env["CALLBACK_URL"])
    /\ GstNoMatches(env["GST_NO"])
    /\ DiffieHellmanWorks(env["ENCRYPTION_PRIVATE_KEY"], env["ONDC_PUBLIC_KEY"])

\* C6: start-up gate.  The server listens, and a handler has run, only
\* under a configuration with every required variable set, CALLBACK_URL and
\* GST_NO well formed and the keys decodable, and then the shared key has
\* been derived; a process that exited at start-up exited with code 1 and
\* never listened (no handler ran).
C6_StartupGate ==
    /\ (server = "listening" \/ \E r \in Slots : req[r].pc # "idle")
          => /\ C6_ConfigurationComplete
             /\ sharedKey # NoKey
             /\ sharedKey = DiffieHellman(env["ENCRYPTION_PRIVATE_KEY"],
                                          env["ONDC_PUBLIC_KEY"])
             /\ exitCode = 0
    /\ ~C6_ConfigurationComplete => server # "listening"
    /\ server = "exited"
          => exitCode = 1 /\ \A r \in Slots : req[r] = IdleReq

\* C6 witness: a configuration whose only defect is that the key agreement
\* fails has made the process exit with code 1.
C6_Witness_ExitedOnKeyFailure ==
    /\ server = "exited"
    /\ exitCode = 1
    /\ \A v \in requiredEnvVars : env[v] # Unset
    /\ CallbackUrlMatches(env["CALLBACK_URL"])
    /\ GstNoMatches(env["GST_NO"])
    /\ ~DiffieHellmanWorks(env["ENCRYPTION_PRIVATE_KEY"], env["ONDC_PUBLIC_KEY"])

----------------------------------------------------------------------------
(* The subscription callback on a started server.                          *)

\* The keys a successful start-up can have derived.
SharedKeys == {DiffieHellman(<<"pkcs8", c>>, <<"spki", c>>) : c \in Curves}

\* The state app.listen leaves: a complete configuration, a derived key.
Started ==
    /\ server = "listening"
    /\ exitCode = 0
    /\ sharedKey \in SharedKeys
    /\ sodium = "pending"
    /\ readyCount = 0

InitSubscribe ==
    /\ Started
    /\ env = OkEnv
    /\ req = [r \in {1} |-> IdleReq]

NextSubscribe ==
    \/ \E r \in Slots : OnSubscribe(r)
    \/ \E r \in Slots : Close(r)

SpecSubscribe == InitSubscribe /\ [][NextSubscribe]_vars

\* PKCS#7 padding as the registry applies it.
C3_Pad(p) ==
    LET n == BlockSize - (Len(p) % BlockSize)
    IN  p \o [i \in 1..n |-> n]

C3_Encrypt(key, bytes) ==
    [i \in 1..Len(bytes) |->
        LET b == (i - 1) \div BlockSize
            block == SubSeq(bytes, b * BlockSize + 1, (b + 1) * BlockSize)
        IN  EncryptBlock(key, block)[i - b * BlockSize]]

\* The plaintexts whose encryption under the key is what the challenge
\* decodes to: empty exactly when decryption fails.
C3_Plaintexts(key, c) ==
    IF c.t # "string" \/ Len(Base64Decode(c.s)) % BlockSize # 0
      THEN {}
      ELSE LET len == Len(Base64Decode(c.s))
           IN  {p \in UNION {[1..k -> Bytes] : k \in (len - BlockSize)..(len - 1)} :
                    C3_Encrypt(key, C3_Pad(p)) = Base64Decode(c.s)}

\* C3: an on_subscribe request without a challenge is answered 400 and
\* decryptAES256ECB is not called; one whose challenge is the encryption of
\* a plaintext under the shared key is answered 200 with that plaintext as
\* answer; any other challenge (not a string, no whole number of blocks,
\* bad padding) is answered 500; the server keeps listening.
C3_OnSubscribeContract ==
    /\ server = "listening"
    /\ \A r \in Slots :
         (req[r].ep = "on_subscribe" /\ req[r].pc = "done") =>
            LET c == req[r].body.challenge
                plain == C3_Plaintexts(sharedKey, c)
                res == req[r].out[1]
            IN  /\ Len(req[r].out) = 1
                /\ ~ChallengeTruthy(c) =>
                      res.status = 400 /\ req[r].calls = <<>>
                /\ (ChallengeTruthy(c) /\ plain # {}) =>
                      /\ res.status = 200
                      /\ res.shape = "answer"
                      /\ \E p \in plain : res.answer = Utf8Decode(p)
                /\ (ChallengeTruthy(c) /\ plain = {}) =>
                      res.status = 500 /\ res.shape = "error"

\* C3 witness: a challenge of whole blocks that does not decrypt (bad
\* padding) has been answered 500.
C3_Witness_DecryptFailure ==
    \E r \in Slots :
        /\ req[r].ep = "on_subscribe"
        /\ req[r].pc = "done"
        /\ req[r].body.challenge.t = "string"
        /\ Len(Base64Decode(req[r].body.challenge.s)) = BlockSize
        /\ req[r].calls = <<"decryptAES256ECB">>
        /\ req[r].out[1].status = 500

----------------------------------------------------------------------------
(* ondc-crypto-sdk-nodejs (line 7), after section 4.4 of the design.       *)

\* The public key text matching a signer's private key.
PublicKeyOf(signer) == <<"pub", signer>>

\* isHeaderValid({header, body, publicKey}): true only when the header
\* parses, is inside its validity window, and its signature verifies under
\* publicKey over the digest of body; every failure yields false.
isHeaderValid(header, body, publicKey) ==
    /\ header.kind = "sig"
    /\ ~header.expired
    /\ publicKey = PublicKeyOf(header.signer)
    /\ header.digest = body

----------------------------------------------------------------------------
(* Inbound callbacks: on_search (lines 428-492), on_select (600-663).      *)

\* message.catalog, message.order
Catalog(message) == IF message = "withCatalog" THEN "catalog" ELSE Undefined
Order(message) == IF message = "withOrder" THEN "order" ELSE Undefined

\* x || {}
OrEmptyObject(x) == IF Truthy(x) THEN x ELSE "{}"

\* The request texts a peer may send to a callback.
InboundTexts ==
    { [v |-> [EmptyJson EXCEPT !.context = c, !.message = m], spelling |-> sp] :
        c \in {Undefined, "context"},
        m \in {Undefined, "withCatalog", "withOrder", "plain"},
        sp \in Spellings }

\* The Authorization headers that may come with a request text.
InboundHeaders(raw) ==
    {NoHeader, [NoHeader EXCEPT !.kind = "empty"], [NoHeader EXCEPT !.kind = "garbage"]}
      \cup { [kind |-> "sig", signer |-> s, digest |-> d, expired |-> e, by |-> 0] :
                s \in {"gateway", "stranger"},
                d \in {raw, JSONstringify(JSONparse(raw)), JSONstringify(EmptyJson)},
                e \in BOOLEAN }

\* Lines 434-459 of on_search and 606-632 of on_select, which are the same
\* up to the first await: validate the body, read the header, call
\* isHeaderValid over JSON.stringify(req.body).
InboundEntry(r, ep, raw, auth) ==
    LET body == JSONparse(raw)
        arrived == [req[r] EXCEPT !.ep = ep, !.raw = raw, !.body = body, !.auth = auth]
    IN  IF ~Truthy(body.context) \/ ~Truthy(body.message)
          THEN [arrived EXCEPT
                  !.pc = "done",
                  !.out = Append(@, ErrorResponse(400,
                              "Missing context or message in request body"))]
          ELSE IF ~HeaderTruthy(auth)
            THEN [arrived EXCEPT
                    !.pc = "done",
                    !.out = Append(@, ErrorResponse(401, "Missing authorization header"))]
            ELSE [arrived EXCEPT
                    !.pc = "awaitVerify",
                    !.authHeader = auth,
                    !.calls = Append(@, "isHeaderValid"),
                    !.verified = Append(@,
                        [ header |-> auth,
                          body   |-> JSONstringify(body),
                          result |-> isHeaderValid(auth, JSONstringify(body),
                                                   env["ONDC_GATEWAY_PUBLIC_KEY"]) ])]

OnSearchStart(r) ==
    /\ server = "listening"
    /\ req[r].pc = "idle"
    /\ \E raw \in InboundTexts :
         \E auth \in InboundHeaders(raw) :
            req' = [req EXCEPT ![r] = InboundEntry(r, "on_search", raw, auth)]
    /\ UNCHANGED <<env, server, exitCode, sharedKey, sodium, readyCount>>

\* Mutant of OnSearchVerified: the result of isHeaderValid is only logged.
OnSearchVerifiedUnchecked(r) ==
    /\ req[r].ep = "on_search"
    /\ req[r].pc = "awaitVerify"
    /\ LET isValid == req[r].verified[Len(req[r].verified)].result
           searchResults == OrEmptyObject(Catalog(req[r].body.message))
       IN  req' = [req EXCEPT ![r] =
                    [Respond(r, MessageResponse("Search results received successfully",
                                                searchResults))
                       EXCEPT !.isValid = isValid,
                              !.calls = Append(@, "process")]]
    /\ UNCHANGED <<env, server, exitCode, sharedKey, sodium, readyCount>>

\* Lines 461-478: isHeaderValid has returned.
OnSearchVerified(r) ==
    /\ req[r].ep = "on_search"
    /\ req[r].pc = "awaitVerify"
    /\ LET isValid == req[r].verified[Len(req[r].verified)].result
           searchResults == OrEmptyObject(Catalog(req[r].body.message))
       IN  req' = [req EXCEPT ![r] =
              IF ~isValid
                THEN [Respond(r, ErrorResponse(401, "Invalid authorization header"))
                        EXCEPT !.isValid = isValid]
                ELSE [Respond(r, MessageResponse("Search results received successfully",
                                                 searchResults))
                        EXCEPT !.isValid = isValid,
                               !.calls = Append(@, "process")]]
    /\ UNCHANGED <<env, server, exitCode, sharedKey, sodium, readyCount>>

OnSelectStart(r) ==
    /\ server = "listening"
    /\ req[r].pc = "idle"
    /\ \E raw \in InboundTexts :
         \E auth \in InboundHeaders(raw) :
            req' = [req EXCEPT ![r] = InboundEntry(r, "on_select", raw, auth)]
    /\ UNCHANGED <<env, server, exitCode, sharedKey, sodium, readyCount>>

\* Lines 634-662: isHeaderValid has returned.  Line 647 reads selectResult,
\* which is not declared (the constant is selectResults): a ReferenceError,
\* caught at line 654 and answered with its message.
OnSelectVerified(r) ==
    /\ req[r].ep = "on_select"
    /\ req[r].pc = "awaitVerify"
    /\ LET isValid == req[r].verified[Len(req[r].verified)].result
       IN  req' = [req EXCEPT ![r] =
              IF ~isValid
                THEN [Respond(r, ErrorResponse(401, "Invalid authorization header"))
                        EXCEPT !.isValid = isValid]
                ELSE [Respond(r, DetailedErrorResponse(500,
                                    "Failed to process select results",
                                    "selectResult is not defined"))
                        EXCEPT !.isValid = isValid,
                               !.calls = Append(@, "process"),
                               !.caught = [from |-> "ReferenceError",
                                           message |-> "selectResult is not defined"]]]
    /\ UNCHANGED <<env, server, exitCode, sharedKey, sodium, readyCount>>

InitInbound ==
    /\ Started
    /\ \E k \in {Unset, OkEnv["ONDC_GATEWAY_PUBLIC_KEY"]} :
         env = [OkEnv EXCEPT !["ONDC_GATEWAY_PUBLIC_KEY"] = k]
    /\ req = [r \in {1} |-> IdleReq]

NextInbound ==
    \/ \E r \in Slots : OnSearchStart(r)
    \/ \E r \in Slots : OnSearchVerified(r)
    \/ \E r \in Slots : OnSelectStart(r)
    \/ \E r \in Slots : OnSelectVerified(r)
    \/ \E r \in Slots : Close(r)

SpecInbound == InitInbound /\ [][NextInbound]_vars

C1_Inbound(r) == req[r].ep \in {"on_search", "on_select"}

\* C1: a callback answers 200, and reaches the step that reads
\* message.catalog / message.order, only after isHeaderValid has returned
\* true for the request's own Authorization header and body; never when
\* the header is missing.
C1_PayloadOnlyAfterVerification ==
    \A r \in Slots :
        (/\ C1_Inbound(r)
         /\ \/ \E i \in 1..Len(req[r].out) : req[r].out[i].status = 200
            \/ \E i \in 1..Len(req[r].calls) : req[r].calls[i] = "process")
        => /\ HeaderTruthy(req[r].auth)
           /\ req[r].isValid
           /\ \E i \in 1..Len(req[r].verified) :
                 /\ req[r].verified[i].result
                 /\ req[r].verified[i].header = req[r].auth
                 /\ req[r].verified[i].body = JSONstringify(req[r].body)

\* C1 witness: on_search has answered 200 with the catalog of a verified
\* request.
C1_Witness_VerifiedSearchResults ==
    \E r \in Slots :
        /\ req[r].ep = "on_search"
        /\ req[r].pc = "done"
        /\ req[r].out[1].status = 200
        /\ req[r].out[1].data = "catalog"
        /\ req[r].verified[1].result

\* Whether the request's header verifies over the text JSON.stringify
\* makes of req.body.
C2_HeaderVerifies(r) ==
    isHeaderValid(req[r].auth, JSONstringify(req[r].body),
                  env["ONDC_GATEWAY_PUBLIC_KEY"])

\* C2 (as claimed): a callback request whose header is missing or fails
\* verification is answered 401 whatever its body, and 400 is given only
\* to requests whose header is present and valid.
C2_UnauthenticatedGets401 ==
    \A r \in Slots :
        (C1_Inbound(r) /\ req[r].pc = "done") =>
            /\ (~HeaderTruthy(req[r].auth) \/ ~C2_HeaderVerifies(r))
                  => req[r].out[1].status = 401
            /\ req[r].out[1].status = 400
                  => HeaderTruthy(req[r].auth) /\ C2_HeaderVerifies(r)

\* C10 (as claimed): a callback request whose header is valid for the text
\* as received and whose body has context and message is not answered 401,
\* however the text is spelled.
C10_RawBodyVerified ==
    \A r \in Slots :
        (/\ C1_Inbound(r)
         /\ req[r].pc = "done"
         /\ isHeaderValid(req[r].auth, req[r].raw, env["ONDC_GATEWAY_PUBLIC_KEY"])
         /\ Truthy(req[r].body.context)
         /\ Truthy(req[r].body.message))
        => req[r].out[1].status # 401

\* C11 (as claimed): a callback request whose body has context and message
\* and whose header is present and verifies is answered 200 with
\* message.catalog (on_search) or message.order (on_select), or {} when
\* the field is absent, and never 500.
C11_VerifiedCallbackAnswered200 ==
    \A r \in Slots :
        (/\ C1_Inbound(r)
         /\ req[r].pc = "done"
         /\ Truthy(req[r].body.context)
         /\ Truthy(req[r].body.message)
         /\ HeaderTruthy(req[r].auth)
         /\ C2_HeaderVerifies(r))
        => /\ Len(req[r].out) = 1
           /\ req[r].out[1].status = 200
           /\ req[r].out[1].data =
                 IF req[r].ep = "on_search"
                   THEN OrEmptyObject(Catalog(req[r].body.message))
                   ELSE OrEmptyObject(Order(req[r].body.message))

----------------------------------------------------------------------------
(* Outbound signed calls: /lookup (246-296), /search (330-424),            *)
(* /select (496-598).                                                      *)

\* createAuthorizationHeader({body, privateKey, ...}) of the SDK: signs the
\* digest of body with privateKey, and throws when the key is no Ed25519
\* secret key.  r is the calling request.
createAuthorizationHeader(body, privateKey, r) ==
    IF privateKey = <<"seed">>
      THEN [ threw   |-> FALSE,
             message |-> Undefined,
             value   |-> [kind |-> "sig", signer |-> "self", digest |-> body,
                          expired |-> FALSE, by |-> r] ]
      ELSE [ threw   |-> TRUE,
             message |-> "invalid privateKey length",
             value   |-> NoHeader ]

\* What the upstream (registry, gateway, peer) may answer to axios.post.
UpstreamReplies ==
    { [kind |-> "response", status |-> st, data |-> d] :
        st \in {200, 201, 404}, d \in {"", "upstream"} }
      \cup {[kind |-> "transport", status |-> 0, data |-> Undefined]}

\* axios resolves for a 2xx response and rejects otherwise.
AxiosResolves(reply) == reply.kind = "response" /\ reply.status \in 200..299

\* error.message of a rejected axios.post
AxiosErrorMessage(reply) ==
    IF reply.kind = "response"
      THEN "Request failed with status code"
      ELSE "connect ECONNREFUSED"

\* error.response?.data
ErrorResponseData(reply) ==
    IF reply.kind = "response" THEN reply.data ELSE Undefined

\* a || b
OrElse(a, b) == IF Truthy(a) THEN a ELSE b

\* await createAuthorizationHeader({ body: JSON.stringify(payload), ... })
CallCreate(rec, payload) ==
    [rec EXCEPT !.pc = "awaitCreate",
                !.payload = payload,
                !.calls = Append(@, "createAuthorizationHeader"),
                !.built = Append(@, [body |-> JSONstringify(payload),
                                     header |-> NoHeader])]

\* The header createAuthorizationHeader hands back to request r.
Created(r) ==
    createAuthorizationHeader(req[r].built[Len(req[r].built)].body,
                              env["SIGNING_PRIVATE_KEY"], r)

\* const authHeader = <the header returned>;
\* await isHeaderValid({ header: authHeader, body: JSON.stringify(payload),
\*                       publicKey })
CallVerify(r, publicKey) ==
    LET header == Created(r).value
    IN  [req[r] EXCEPT
            !.pc = "awaitVerify",
            !.authHeader = header,
            !.built[Len(req[r].built)].header = header,
            !.calls = Append(@, "isHeaderValid"),
            !.verified = Append(@,
                [ header |-> header,
                  body   |-> JSONstringify(req[r].payload),
                  result |-> isHeaderValid(header, JSONstringify(req[r].payload),
                                           publicKey) ])]

\* Mutant of PostedBody: the text posted is the pretty-printed one the
\* handler logs (JSON.stringify(payload, null, 2), lines 366 and 537).
PostedBodyPretty(r) == [v |-> req[r].payload, spelling |-> "spaced"]

\* The second argument of axios.post: JSON.stringify(payload)
PostedBody(r) == JSONstringify(req[r].payload)

\* await axios.post(url, JSON.stringify(payload),
\*                  { headers: { Authorization: authHeader } })
CallPost(r, url) ==
    [req[r] EXCEPT
        !.pc = "awaitPost",
        !.isValid = req[r].verified[Len(req[r].verified)].result,
        !.calls = Append(@, "axios.post"),
        !.sent = Append(@, [url |-> url, body |-> PostedBody(r),
                            header |-> req[r].authHeader])]

\* The catch block's record of a throwing createAuthorizationHeader.
CaughtCreate(r) ==
    [from |-> "createAuthorizationHeader", message |-> Created(r).message]

\* The catch block's record of a rejected axios.post.
CaughtPost(reply) == [from |-> "axios.post", message |-> AxiosErrorMessage(reply)]

LookupBodies ==
    { [EmptyJson EXCEPT !.subscriber_id = "peer", !.country = "IND",
                        !.city = "std:080", !.domain = "ONDC:TRV11", !.type = t] :
        t \in {Undefined, "BPP"} }

\* Lines 246-264.
LookupStart(r) ==
    /\ server = "listening"
    /\ req[r].pc = "idle"
    /\ \E body \in LookupBodies :
         req' = [req EXCEPT ![r] =
                    CallCreate([req[r] EXCEPT !.ep = "lookup",
                                              !.raw = JSONstringify(body),
                                              !.body = body],
                               body)]
    /\ UNCHANGED <<env, server, exitCode, sharedKey, sodium, readyCount>>

\* Lines 259-274, and 292-295 when createAuthorizationHeader throws.
LookupCreated(r) ==
    /\ req[r].ep = "lookup"
    /\ req[r].pc = "awaitCreate"
    /\ req' = [req EXCEPT ![r] =
          IF Created(r).threw
            THEN [Respond(r, DetailedErrorResponse(500, "Failed to perform lookup",
                                                   Undefined))
                    EXCEPT !.caught = CaughtCreate(r)]
            ELSE CallVerify(r, env["ONDC_PUBLIC_KEY"])]
    /\ UNCHANGED <<env, server, exitCode, sharedKey, sodium, readyCount>>

\* Lines 270-288: isValid is logged, then the request is posted.
LookupVerified(r) ==
    /\ req[r].ep = "lookup"
    /\ req[r].pc = "awaitVerify"
    /\ req' = [req EXCEPT ![r] = CallPost(r, "ONDC_LOOKUP_URL")]
    /\ UNCHANGED <<env, server, exitCode, sharedKey, sodium, readyCount>>

\* Mutant of LookupReplied: the upstream's status is passed on.
LookupRepliedVerbatim(r, reply) ==
    IF reply.kind = "response"
      THEN [Respond(r, Response(reply.status, "verbatim", Undefined, reply.data,
                                Undefined, <<>>))
              EXCEPT !.reply = reply]
      ELSE [Respond(r, DetailedErrorResponse(500, "Failed to perform lookup",
                                             ErrorResponseData(reply)))
              EXCEPT !.reply = reply, !.caught = CaughtPost(reply)]

\* Lines 290-295: res.status(200).json(response.data), or the catch block.
LookupReplied(r, reply) ==
    IF AxiosResolves(reply)
      THEN [Respond(r, Response(200, "verbatim", Undefined, reply.data,
                                Undefined, <<>>))
              EXCEPT !.reply = reply]
      ELSE [Respond(r, DetailedErrorResponse(500, "Failed to perform lookup",
                                             ErrorResponseData(reply)))
              EXCEPT !.reply = reply, !.caught = CaughtPost(reply)]

LookupPosted(r) ==
    /\ req[r].ep = "lookup"
    /\ req[r].pc = "awaitPost"
    /\ \E reply \in UpstreamReplies :
         req' = [req EXCEPT ![r] = LookupReplied(r, reply)]
    /\ UNCHANGED <<env, server, exitCode, sharedKey, sodium, readyCount>>

\* Request bodies of /search: complete, or with one field missing.
SearchBodies ==
    LET full == [EmptyJson EXCEPT !.country = "IND", !.city = "std:080",
                                  !.message = "intent"]
    IN  { full, [full EXCEPT !.country = Undefined], [full EXCEPT !.city = ""],
          [full EXCEPT !.message = Undefined] }

\* The payload of lines 345-362 / 514-533: transaction_id and message_id
\* are fresh UUIDs (r stands for the one drawn by request r).
ActionPayload(r, action, body, transaction_id) ==
    [EmptyJson EXCEPT !.context = "context",
                      !.domain = "DOMAIN",
                      !.country = body.country,
                      !.city = body.city,
                      !.transaction_id = transaction_id,
                      !.message_id = r,
                      !.action = action,
                      !.message = body.message]

\* Lines 330-375.
SearchStart(r) ==
    /\ server = "listening"
    /\ req[r].pc = "idle"
    /\ \E body \in SearchBodies :
         LET arrived == [req[r] EXCEPT !.ep = "search",
                                       !.raw = JSONstringify(body),
                                       !.body = body]
         IN  req' = [req EXCEPT ![r] =
                IF ~Truthy(body.country) \/ ~Truthy(body.city) \/ ~Truthy(body.message)
                  THEN [arrived EXCEPT
                          !.pc = "done",
                          !.out = Append(@, DetailedErrorResponse(500,
                                      "Search request failed",
                                      "missing items in request body"))]
                  ELSE CallCreate(arrived,
                                  ActionPayload(r, "search", body, "generated"))]
    /\ UNCHANGED <<env, server, exitCode, sharedKey, sodium, readyCount>>

\* Lines 370-381, and 414-423 when createAuthorizationHeader throws.
SearchCreated(r) ==
    /\ req[r].ep = "search"
    /\ req[r].pc = "awaitCreate"
    /\ req' = [req EXCEPT ![r] =
          IF Created(r).threw
            THEN [Respond(r, DetailedErrorResponse(500, "Search request failed",
                                OrElse(Undefined, Created(r).message)))
                    EXCEPT !.caught = CaughtCreate(r)]
            ELSE CallVerify(r, env["REQUEST_PUBLIC_KEY"])]
    /\ UNCHANGED <<env, server, exitCode, sharedKey, sodium, readyCount>>

\* Lines 383-403.
SearchVerified(r) ==
    /\ req[r].ep = "search"
    /\ req[r].pc = "awaitVerify"
    /\ req' = [req EXCEPT ![r] =
          IF ~req[r].verified[Len(req[r].verified)].result
            THEN Respond(r, DetailedErrorResponse(500, "Search request failed",
                                                  "Invalid authHeader"))
            ELSE CallPost(r, "https://staging.gateway.proteantech.in/search")]
    /\ UNCHANGED <<env, server, exitCode, sharedKey, sodium, readyCount>>

\* Lines 405-423.
SearchPosted(r) ==
    /\ req[r].ep = "search"
    /\ req[r].pc = "awaitPost"
    /\ \E reply \in UpstreamReplies :
         req' = [req EXCEPT ![r] =
            IF AxiosResolves(reply)
              THEN [Respond(r, MessageResponse(
                        "Search request sent successfully to ONDC gateway", reply.data))
                      EXCEPT !.reply = reply]
              ELSE [Respond(r, DetailedErrorResponse(500, "Search request failed",
                        OrElse(ErrorResponseData(reply), AxiosErrorMessage(reply))))
                      EXCEPT !.reply = reply, !.caught = CaughtPost(reply)]]
    /\ UNCHANGED <<env, server, exitCode, sharedKey, sodium, readyCount>>

\* Request bodies of /select: complete, or with one field missing.
SelectBodies ==
    LET full == [EmptyJson EXCEPT !.country = "IND", !.city = "std:080",
                                  !.transaction_id = "txn", !.message = "order"]
    IN  { full, [full EXCEPT !.country = ""], [full EXCEPT !.city = Undefined],
          [full EXCEPT !.transaction_id = Undefined],
          [full EXCEPT !.message = Undefined] }

\* Lines 496-546.
SelectStart(r) ==
    /\ server = "listening"
    /\ req[r].pc = "idle"
    /\ \E body \in SelectBodies :
         LET arrived == [req[r] EXCEPT !.ep = "select",
                                       !.raw = JSONstringify(body),
                                       !.body = body]
         IN  req' = [req EXCEPT ![r] =
                IF \/ ~Truthy(body.country) \/ ~Truthy(body.city)
                   \/ ~Truthy(body.transaction_id) \/ ~Truthy(body.message)
                  THEN [arrived EXCEPT
                          !.pc = "done",
                          !.out = Append(@, DetailedErrorResponse(400,
                              "Select request failed",
                              "Missing country, city, transaction_id, or message in request body"))]
                  ELSE CallCreate(arrived,
                                  ActionPayload(r, "select", body, body.transaction_id))]
    /\ UNCHANGED <<env, server, exitCode, sharedKey, sodium, readyCount>>

\* Lines 541-552, and 588-597 when createAuthorizationHeader throws.
SelectCreated(r) ==
    /\ req[r].ep = "select"
    /\ req[r].pc = "awaitCreate"
    /\ req' = [req EXCEPT ![r] =
          IF Created(r).threw
            THEN [Respond(r, DetailedErrorResponse(500, "Select request failed",
                                OrElse(Undefined, Created(r).message)))
                    EXCEPT !.caught = CaughtCreate(r)]
            ELSE CallVerify(r, env["REQUEST_PUBLIC_KEY"])]
    /\ UNCHANGED <<env, server, exitCode, sharedKey, sodium, readyCount>>

\* Mutant of SelectVerified: the 401 of line 560 is sent without return, so
\* the handler goes on to axios.post and answers again.
SelectVerifiedWithoutReturn(r) ==
    /\ req[r].ep = "select"
    /\ req[r].pc = "awaitVerify"
    /\ req' = [req EXCEPT ![r] =
          IF ~req[r].verified[Len(req[r].verified)].result
            THEN [CallPost(r, "https://ondc-staging.goodpass.in")
                    EXCEPT !.out = Append(@, DetailedErrorResponse(401,
                                        "Select request failed",
                                        "Invalid authorization header"))]
            ELSE CallPost(r, "https://ondc-staging.goodpass.in")]
    /\ UNCHANGED <<env, server, exitCode, sharedKey, sodium, readyCount>>

\* Lines 554-577.
SelectVerified(r) ==
    /\ req[r].ep = "select"
    /\ req[r].pc = "awaitVerify"
    /\ req' = [req EXCEPT ![r] =
          IF ~req[r].verified[Len(req[r].verified)].result
            THEN Respond(r, DetailedErrorResponse(401, "Select request failed",
                                                  "Invalid authorization header"))
            ELSE CallPost(r, "https://ondc-staging.goodpass.in")]
    /\ UNCHANGED <<env, server, exitCode, sharedKey, sodium, readyCount>>

\* Lines 579-597.
SelectPosted(r) ==
    /\ req[r].ep = "select"
    /\ req[r].pc = "awaitPost"
    /\ \E reply \in UpstreamReplies :
         req' = [req EXCEPT ![r] =
            IF AxiosResolves(reply)
              THEN [Respond(r, MessageResponse(
                        "Select request sent successfully to ONDC BPP", reply.data))
                      EXCEPT !.reply = reply]
              ELSE [Respond(r, DetailedErrorResponse(500, "Select request failed",
                        OrElse(ErrorResponseData(reply), AxiosErrorMessage(reply))))
                      EXCEPT !.reply = reply, !.caught = CaughtPost(reply)]]
    /\ UNCHANGED <<env, server, exitCode, sharedKey, sodium, readyCount>>

InitOutbound ==
    /\ Started
    /\ \E sk \in {OkEnv["SIGNING_PRIVATE_KEY"], <<"junk">>},
          pk \in {Unset, OkEnv["REQUEST_PUBLIC_KEY"]} :
         env = [OkEnv EXCEPT !["SIGNING_PRIVATE_KEY"] = sk,
                             !["REQUEST_PUBLIC_KEY"] = pk]
    /\ req = [r \in 1..MaxOutReq |-> IdleReq]

NextOutbound ==
    \/ \E r \in Slots : LookupStart(r)
    \/ \E r \in Slots : LookupCreated(r)
    \/ \E r \in Slots : LookupVerified(r)
    \/ \E r \in Slots : LookupPosted(r)
    \/ \E r \in Slots : SearchStart(r)
    \/ \E r \in Slots : SearchCreated(r)
    \/ \E r \in Slots : SearchVerified(r)
    \/ \E r \in Slots : SearchPosted(r)
    \/ \E r \in Slots : SelectStart(r)
    \/ \E r \in Slots : SelectCreated(r)
    \/ \E r \in Slots : SelectVerified(r)
    \/ \E r \in Slots : SelectPosted(r)
    \/ \E r \in Slots : Close(r)

SpecOutbound == InitOutbound /\ [][NextOutbound]_vars

\* C4: whenever a handler posts to its upstream, the text posted is the
\* text createAuthorizationHeader was called with in that request, the
\* Authorization header is the one that call returned to that request, a
\* signature over exactly that text, and the request posts at most once.
C4_SignedCallIntegrity ==
    \A r \in Slots :
        /\ Len(req[r].sent) <= 1
        /\ \A i \in 1..Len(req[r].sent) :
             LET call == req[r].sent[i]
             IN  /\ call.header = req[r].authHeader
                 /\ call.header.by = r
                 /\ call.header.kind = "sig"
                 /\ call.header.digest = call.body
                 /\ \E j \in 1..Len(req[r].built) :
                       /\ req[r].built[j].body = call.body
                       /\ req[r].built[j].header = call.header

\* C4 witness: two requests with different payloads have both posted, each
\* while the other was in flight.
C4_Witness_TwoCallsInFlight ==
    \E r1 \in Slots, r2 \in Slots :
        /\ r1 # r2
        /\ req[r1].pc = "awaitPost"
        /\ req[r2].pc = "awaitPost"
        /\ req[r1].ep = "search"
        /\ req[r2].ep = "select"
        /\ Len(req[r1].sent) = 1
        /\ Len(req[r2].sent) = 1
        /\ req[r1].sent[1].body # req[r2].sent[1].body

\* C5 (as claimed): /lookup passes on the status and body of every
\* upstream response, and answers 500 with a wrapping body only when the
\* transport failed.
C5_LookupVerbatim ==
    \A r \in Slots :
        (req[r].ep = "lookup" /\ req[r].pc = "done") =>
            /\ req[r].reply.kind = "response" =>
                  /\ req[r].out[1].status = req[r].reply.status
                  /\ req[r].out[1].shape = "verbatim"
                  /\ req[r].out[1].data = req[r].reply.data
            /\ (/\ Len(req[r].sent) = 1
                /\ req[r].out[1].status = 500
                /\ req[r].out[1].shape = "error")
                  => req[r].reply.kind = "transport"

\* C5 (amended): /lookup answers 200 with the upstream's body verbatim
\* when the upstream answered 2xx; in every other case (another status, a
\* transport failure, a header that could not be built) it answers 500
\* with { error: 'Failed to perform lookup', details } where details is the
\* upstream's body if there was a response and absent otherwise.
C5_LookupForwarding ==
    \A r \in Slots :
        (req[r].ep = "lookup" /\ req[r].pc = "done") =>
            /\ Len(req[r].out) = 1
            /\ IF AxiosResolves(req[r].reply)
                 THEN /\ req[r].out[1].status = 200
                      /\ req[r].out[1].shape = "verbatim"
                      /\ req[r].out[1].data = req[r].reply.data
                 ELSE /\ req[r].out[1].status = 500
                      /\ req[r].out[1].shape = "error"
                      /\ req[r].out[1].text = "Failed to perform lookup"
                      /\ req[r].out[1].details =
                            (IF req[r].reply.kind = "response"
                               THEN req[r].reply.data ELSE Undefined)

\* C5 witness: the registry answered 404 with a body, and /lookup answered
\* 500 with that body as details.
C5_Witness_UpstreamErrorWrapped ==
    \E r \in Slots :
        /\ req[r].ep = "lookup"
        /\ req[r].pc = "done"
        /\ req[r].reply.kind = "response"
        /\ req[r].reply.status = 404
        /\ req[r].out[1].status = 500
        /\ req[r].out[1].details = "upstream"

\* The request was rejected because a field its handler requires is
\* missing from the body.
C7_RejectedForMissingField(r) ==
    /\ req[r].pc = "done"
    /\ req[r].calls = <<>>
    /\ CASE req[r].ep = "on_subscribe" -> ~ChallengeTruthy(req[r].body.challenge)
         [] req[r].ep = "search" ->
               \/ ~Truthy(req[r].body.country) \/ ~Truthy(req[r].body.city)
               \/ ~Truthy(req[r].body.message)
         [] req[r].ep = "select" ->
               \/ ~Truthy(req[r].body.country) \/ ~Truthy(req[r].body.city)
               \/ ~Truthy(req[r].body.transaction_id)
               \/ ~Truthy(req[r].body.message)
         [] req[r].ep \in {"on_search", "on_select"} ->
               ~Truthy(req[r].body.context) \/ ~Truthy(req[r].body.message)
         [] OTHER -> FALSE

\* C7 (as claimed): a request rejected for a missing body field is
\* answered 400, at every endpoint.
C7_MissingFieldIs400 ==
    \A r \in Slots : C7_RejectedForMissingField(r) => req[r].out[1].status = 400

\* C8 (as claimed): when signing, header construction or verification, or
\* challenge decryption throws in a handler, the answer is 500 and its body
\* does not carry the error's message.
C8_CryptoErrorsNotLeaked ==
    \A r \in Slots :
        (/\ req[r].pc = "done"
         /\ req[r].caught.from \in {"createAuthorizationHeader", "isHeaderValid",
                                     "decryptAES256ECB", "signMessage"})
        => /\ req[r].out[1].status = 500
           /\ req[r].out[1].details # req[r].caught.message
           /\ req[r].out[1].text # req[r].caught.message
           /\ req[r].out[1].data # req[r].caught.message

C13_Outbound(r) == req[r].ep \in {"lookup", "search", "select"}

\* C13 (as claimed): in /lookup, /search and /select axios.post is executed
\* only after isHeaderValid returned true for the header and body that are
\* sent; when it returned false the upstream is never contacted and the
\* request is answered with an error (500 for /search, 401 for /select).
C13_PostOnlyAfterSelfVerification ==
    \A r \in Slots :
        C13_Outbound(r) =>
            /\ \A i \in 1..Len(req[r].sent) :
                  \E j \in 1..Len(req[r].verified) :
                      /\ req[r].verified[j].result
                      /\ req[r].verified[j].header = req[r].sent[i].header
                      /\ req[r].verified[j].body = req[r].sent[i].body
            /\ (\E j \in 1..Len(req[r].verified) : ~req[r].verified[j].result)
                  => /\ req[r].sent = <<>>
                     /\ req[r].pc = "done" =>
                           /\ req[r].out[1].status >= 400
                           /\ req[r].ep = "search" => req[r].out[1].status = 500
                           /\ req[r].ep = "select" => req[r].out[1].status = 401

----------------------------------------------------------------------------
(* GET /ondc-site-verification.html (301-315) and signMessage (686-702).   *)

\* The libsodium readiness promise settles: once, for good.
SodiumSettles ==
    /\ server = "listening"
    /\ sodium = "pending"
    /\ \E outcome \in {"resolved", "rejected"} : sodium' = outcome
    /\ readyCount' = readyCount + 1
    /\ UNCHANGED <<env, server, exitCode, sharedKey, req>>

\* sodium.crypto_sign_detached(signingString, from_base64(privateKey))
\* throws when the key is no Ed25519 secret key.
SignThrows(privateKey) == privateKey # <<"seed">>

\* Mutant of SiteStart: signMessage signs without awaiting _sodium.ready.
SiteStartWithoutAwait(r) ==
    /\ server = "listening"
    /\ req[r].pc = "idle"
    /\ req' = [req EXCEPT ![r] =
          [Respond(r, Response(200, "html", Undefined, "signature", Undefined, <<>>))
             EXCEPT !.ep = "site",
                    !.calls = <<"signMessage", "crypto_sign_detached">>,
                    !.sodiumAtStart = sodium,
                    !.sodiumAtSign = sodium]]
    /\ UNCHANGED <<env, server, exitCode, sharedKey, sodium, readyCount>>

\* Lines 301-305 and 687-689: the handler calls signMessage, which
\* suspends on await _sodium.ready.
SiteStart(r) ==
    /\ server = "listening"
    /\ req[r].pc = "idle"
    /\ req' = [req EXCEPT ![r] =
          [req[r] EXCEPT !.ep = "site",
                         !.pc = "awaitReady",
                         !.calls = <<"signMessage">>,
                         !.sodiumAtStart = sodium]]
    /\ UNCHANGED <<env, server, exitCode, sharedKey, sodium, readyCount>>

\* Lines 690-701 and 306-314: signMessage resumes once the promise has
\* settled.  A rejection or a throwing crypto_sign_detached becomes
\* Error('Failed to sign message'), which the handler answers with 500.
SiteResume(r) ==
    /\ req[r].ep = "site"
    /\ req[r].pc = "awaitReady"
    /\ sodium # "pending"
    /\ req' = [req EXCEPT ![r] =
          IF sodium = "rejected"
            THEN [Respond(r, Response(500, "text", "Internal server error",
                                      Undefined, Undefined, <<>>))
                    EXCEPT !.caught = [from |-> "signMessage",
                                       message |-> "Failed to sign message"]]
            ELSE IF SignThrows(env["SIGNING_PRIVATE_KEY"])
              THEN [Respond(r, Response(500, "text", "Internal server error",
                                        Undefined, Undefined, <<>>))
                      EXCEPT !.calls = Append(@, "crypto_sign_detached"),
                             !.sodiumAtSign = sodium,
                             !.caught = [from |-> "signMessage",
                                         message |-> "Failed to sign message"]]
              ELSE [Respond(r, Response(200, "html", Undefined, "signature",
                                        Undefined, <<>>))
                      EXCEPT !.calls = Append(@, "crypto_sign_detached"),
                             !.sodiumAtSign = sodium]]
    /\ UNCHANGED <<env, server, exitCode, sharedKey, sodium, readyCount>>

InitSite ==
    /\ Started
    /\ \E sk \in {OkEnv["SIGNING_PRIVATE_KEY"], <<"junk">>} :
         env = [OkEnv EXCEPT !["SIGNING_PRIVATE_KEY"] = sk]
    /\ req = [r \in 1..MaxSiteReq |-> IdleReq]

NextSite ==
    \/ SodiumSettles
    \/ \E r \in Slots : SiteStart(r)
    \/ \E r \in Slots : SiteResume(r)
    \/ \E r \in Slots : Close(r)

\* The readiness promise settles, and the event loop resumes every
\* continuation that is ready to run.
SpecSite ==
    /\ InitSite
    /\ [][NextSite]_vars
    /\ WF_vars(SodiumSettles)
    /\ \A r \in 1..MaxSiteReq : WF_vars(SiteResume(r))

\* No crypto_sign_detached has run before readiness completed, readiness
\* has completed at most once, and an answer is 200 with the signed page
\* or 500.
C9_Safe ==
    /\ readyCount <= 1
    /\ (readyCount = 0) = (sodium = "pending")
    /\ \A r \in Slots :
         /\ req[r].sodiumAtSign \in {"none", "resolved"}
         /\ (\E i \in 1..Len(req[r].calls) : req[r].calls[i] = "crypto_sign_detached")
               => req[r].sodiumAtSign = "resolved" /\ readyCount = 1
         /\ (req[r].ep = "site" /\ req[r].pc = "done") =>
               /\ Len(req[r].out) = 1
               /\ \/ req[r].out[1].status = 200 /\ req[r].out[1].data = "signature"
                  \/ req[r].out[1].status = 500

\* C9: with any number of site-verification requests in flight, also
\* ones that arrived before libsodium was ready, crypto_sign_detached never
\* runs before readiness has completed, readiness completes once and stays
\* completed, and every request is eventually answered.
C9_ReadinessGate ==
    /\ []C9_Safe
    /\ [][sodium # "pending" => sodium' = sodium]_vars
    /\ \A r \in 1..MaxSiteReq : (req[r].pc = "awaitReady") ~> (req[r].pc = "done")

\* C9 witness: two requests that both arrived before readiness have both
\* been answered 200, signed after readiness.
C9_Witness_ConcurrentBeforeReady ==
    \E r1 \in Slots, r2 \in Slots :
        /\ r1 # r2
        /\ \A r \in {r1, r2} :
             /\ req[r].ep = "site"
             /\ req[r].pc = "done"
             /\ req[r].sodiumAtStart = "pending"
             /\ req[r].sodiumAtSign = "resolved"
             /\ req[r].out[1].status = 200

----------------------------------------------------------------------------
(* POST /subscribe (137-219), and all handlers of the application together. *)

\* The subscription payload of lines 149-199, built from the environment.
SubscribePayload == [EmptyJson EXCEPT !.context = "operation", !.message = "entity"]

\* Lines 137-206: build the payload and await axios.post to the registry.
\* The request is not signed.
SubscribeStart(r) ==
    /\ server = "listening"
    /\ req[r].pc = "idle"
    /\ req' = [req EXCEPT ![r] =
          [req[r] EXCEPT !.ep = "subscribe",
                         !.pc = "awaitPost",
                         !.payload = SubscribePayload,
                         !.calls = <<"axios.post">>,
                         !.sent = <<[url |-> "ONDC_SUBSCRIBE_URL",
                                     body |-> JSONstringify(SubscribePayload),
                                     header |-> NoHeader]>>]]
    /\ UNCHANGED <<env, server, exitCode, sharedKey, sodium, readyCount>>

\* Lines 208-218: the registry's answer, or the catch block.
SubscribePosted(r) ==
    /\ req[r].ep = "subscribe"
    /\ req[r].pc = "awaitPost"
    /\ \E reply \in UpstreamReplies :
         req' = [req EXCEPT ![r] =
            IF AxiosResolves(reply)
              THEN [Respond(r, MessageResponse(
                        "Subscription request sent successfully to ONDC Registry",
                        reply.data))
                      EXCEPT !.reply = reply]
              ELSE [Respond(r, DetailedErrorResponse(500,
                        "Failed to send subscription request",
                        ErrorResponseData(reply)))
                      EXCEPT !.reply = reply, !.caught = CaughtPost(reply)]]
    /\ UNCHANGED <<env, server, exitCode, sharedKey, sodium, readyCount>>

\* The application after app.listen (667-669), with every route of
\* lines 137-663 registered.
InitHandlers ==
    /\ Started
    /\ \E sk \in {OkEnv["SIGNING_PRIVATE_KEY"], <<"junk">>},
          rk \in {Unset, OkEnv["REQUEST_PUBLIC_KEY"]},
          gk \in {Unset, OkEnv["ONDC_GATEWAY_PUBLIC_KEY"]} :
         env = [OkEnv EXCEPT !["SIGNING_PRIVATE_KEY"] = sk,
                             !["REQUEST_PUBLIC_KEY"] = rk,
                             !["ONDC_GATEWAY_PUBLIC_KEY"] = gk]
    /\ req = [r \in {1} |-> IdleReq]

\* Challenges of at most one cipher block: absent, decrypting, failing.
HandlerChallenges ==
    {NoChallenge} \cup {[t |-> "string", s |-> s] : s \in Texts(BlockSize)}

\* The steps that resume a suspended handler of request r.
Continue(r) ==
    \/ SubscribePosted(r)
    \/ LookupCreated(r) \/ LookupVerified(r) \/ LookupPosted(r)
    \/ SearchCreated(r) \/ SearchVerified(r) \/ SearchPosted(r)
    \/ SelectCreated(r) \/ SelectVerified(r) \/ SelectPosted(r)
    \/ OnSearchVerified(r)
    \/ OnSelectVerified(r)
    \/ SiteResume(r)

NextHandlers ==
    \/ SodiumSettles
    \/ \E r \in Slots : SubscribeStart(r)
    \/ \E r \in Slots : SubscribePosted(r)
    \/ \E r \in Slots : OnSubscribeFrom(r, HandlerChallenges)
    \/ \E r \in Slots : LookupStart(r)
    \/ \E r \in Slots : LookupCreated(r)
    \/ \E r \in Slots : LookupVerified(r)
    \/ \E r \in Slots : LookupPosted(r)
    \/ \E r \in Slots : SearchStart(r)
    \/ \E r \in Slots : SearchCreated(r)
    \/ \E r \in Slots : SearchVerified(r)
    \/ \E r \in Slots : SearchPosted(r)
    \/ \E r \in Slots : SelectStart(r)
    \/ \E r \in Slots : SelectCreated(r)
    \/ \E r \in Slots : SelectVerified(r)
    \/ \E r \in Slots : SelectPosted(r)
    \/ \E r \in Slots : OnSearchStart(r)
    \/ \E r \in Slots : OnSearchVerified(r)
    \/ \E r \in Slots : OnSelectStart(r)
    \/ \E r \in Slots : OnSelectVerified(r)
    \/ \E r \in Slots : SiteStart(r)
    \/ \E r \in Slots : SiteResume(r)
    \/ \E r \in Slots : Close(r)

\* Every awaited call (the upstream, the SDK, libsodium's readiness)
\* returns or throws, and the event loop resumes the handler.
SpecHandlers ==
    /\ InitHandlers
    /\ [][NextHandlers]_vars
    /\ WF_vars(SodiumSettles)
    /\ \A r \in {1} : WF_vars(Continue(r))

\* A request in flight has no response yet, a finished one has one.
C12_OneResponse ==
    \A r \in Slots :
        /\ Len(req[r].out) <= 1
        /\ (req[r].pc = "done") = (Len(req[r].out) = 1)
        /\ req[r].pc = "idle" => req[r].ep = "none"

\* C12: every handler sends exactly one response per request on every
\* control path: a handler that has answered answers nothing more, and a
\* request that was received is eventually answered, given that the
\* upstream call and the crypto calls return or throw.
C12_ExactlyOneResponse ==
    /\ []C12_OneResponse
    /\ [][\A r \in Slots :
            Len(req[r].out) = 1 => (req'[r].out = req[r].out \/ req'[r] = IdleReq)]_vars
    /\ \A r \in {1} :
          (req[r].pc \notin {"idle", "done"}) ~> (req[r].pc = "done")

\* C12 witness: a /select request whose self-verification failed has been
\* answered, once, without a call to the upstream.
C12_Witness_SelectRejectedOnce ==
    \E r \in Slots :
        /\ req[r].ep = "select"
        /\ req[r].pc = "done"
        /\ Len(req[r].verified) = 1
        /\ ~req[r].verified[1].result
        /\ Len(req[r].out) = 1
        /\ req[r].sent = <<>>

====
